---- MODULE Spec2Model ----
(***************************************************************************)
(* Uplifted Mascot RAG service (src/rag-service/rag_service.py) and its     *)
(* ingestion scripts (src/scripts).                                        *)
(*                                                                         *)
(* Spec       : the /ask-mascot request pipeline run by the worker threads *)
(*              of the server: mascot validation, retrieve_context (lazy   *)
(*              embedding model, embedding call, lazy Chroma collection,   *)
(*              query, normalisation), generate_response (prompt, lazy     *)
(*              chat model, generate_content, chat fallback) and the       *)
(*              response.  The three module globals are shared; a step of  *)
(*              a thread is one access to a global or one external call.   *)
(* PromptSpec : the prompt assembly of generate_response as a function of  *)
(*              its inputs.                                                *)
(* ConfidenceSpec : the confidence of ask_mascot as a function of the      *)
(*              distances of the retrieved chunks.                         *)
(* FormatSpec : the formatting loop of retrieve_context and the sources of *)
(*              ask_mascot as a function of the reply of the store.        *)
(* LoaderSpec : the records written by scripts/load_chromadb.py and        *)
(*              scripts/convert_to_jsonl.py for an embeddings file.        *)
(* ChunkSpec  : chunk_text of scripts/process_docs.py.                     *)
(* PipelineSpec : process_repository, create_embeddings and               *)
(*              load_embeddings_to_chromadb run one after the other.      *)
(***************************************************************************)
EXTENDS Integers, Sequences, FiniteSets, TLC

\* ------------------------------------------------------------------ bounds
\* Requests accepted over the life of the process.
MaxRequests == 2
\* The top_k of the requests, and so the most hits a query returns.
MaxTopK == 2

\* The worker threads that run the synchronous endpoint concurrently.
Threads == {"t1", "t2"}

\* ------------------------------------------------------- program constants
MASCOT_PERSONALITIES == {"gooey", "bill"}

\* The top_k the clients send (the code allows 1..20).
TopKInputs == {MaxTopK}

\* Mascot names the clients send: a known one and an unknown one.
MascotInputs == {"gooey", "clippy"}

EmbeddingModelNames ==
    <<"text-embedding-004", "textembedding-gecko@003", "textembedding-gecko@001">>

ChatModelNames ==
    <<"gemini-2.5-flash", "gemini-2.5-flash-lite", "gemini-2.0-flash-001",
      "gemini-2.0-flash-lite-001", "gemini-2.5-pro">>

\* Texts are sequences of fragments.
NoContextText ==
    <<"I couldn't find relevant information in the knowledge base. Please try rephrasing your question.">>
ApologyPrefix == "I apologize, but I encountered an error: "

\* What loading one candidate model can do: succeed, fail with a 404 / not
\* found error, or fail with any other exception.
LoadOutcomes == {"ok", "not_found", "error"}

\* --------------------------------------------------------------- variables
VARIABLES
    _embedding_model,    \* module global, None until resolved
    _chat_model,         \* module global, None until resolved
    _chroma_collection,  \* module global, None until resolved
    CHROMA_HOST,         \* configuration: TRUE when the HTTP client is used
    th,                  \* per thread: position and locals of its request
    served,              \* history: requests accepted so far
    pin                  \* inputs and result of the function a specification applies

svcVars == <<_embedding_model, _chat_model, _chroma_collection, CHROMA_HOST,
             th, served>>
vars == <<_embedding_model, _chat_model, _chroma_collection, CHROMA_HOST,
          th, served, pin>>

\* ------------------------------------------------------------ thread state
\* Python's None for a handle, an exception, a response.
NoHandle == [kind |-> "None", build |-> 0]
NoError == [type |-> "None", msg |-> << >>]
NoResponse == [status |-> 0, response |-> << >>, sources |-> << >>,
               confidence |-> [num |-> 0, den |-> 1]]

\* The locals of ask_mascot and of the functions it calls, plus the history
\* of the current request: ev, what it did; attempts, the candidates its
\* current model resolution tried, in order, with their outcome; stored, the
\* handle that resolution assigned to the global; raised, the exception that
\* reached an except clause last.
IdleThread ==
    [ pc              |-> "idle",
      mascot          |-> "",
      top_k           |-> 0,
      cand            |-> 0,
      last_error      |-> NoError,
      raised          |-> NoError,
      attempts        |-> << >>,
      stored          |-> NoHandle,
      client          |-> "",
      context_chunks  |-> << >>,
      response        |-> NoResponse,
      ev              |-> {} ]

Mark(s, e) == [s EXCEPT !.ev = @ \cup {e}]

\* A model resolution returns: its locals are gone.
EndCall(s, pc) ==
    [s EXCEPT !.pc = pc, !.cand = 0, !.last_error = NoError, !.attempts = << >>,
              !.stored = NoHandle, !.client = ""]

\* An exception: its type and its message (what str(e) shows), a sequence
\* of text fragments.
Exc(type, msg) == [type |-> type, msg |-> msg]

\* The exception a failed candidate load raises.
LoadError(name, outcome) ==
    Exc("Exception", <<IF outcome = "not_found" THEN "404 not found" ELSE "error", name>>)

\* A newly constructed model or collection object: its identity is the
\* number of the construction (the global holds the latest one).  The name
\* of the model it was loaded from is kept in the attempts of the call.
Handle(kind, global) == [kind |-> kind, build |-> global.build + 1]

Max(a, b) == IF a >= b THEN a ELSE b
Min(a, b) == IF a <= b THEN a ELSE b

\* ------------------------------------------------------------ vector store
\* A file path is a sequence of path fragments, an id is the path followed
\* by ":" and the chunk index.  Distances are in hundredths.
PathA == <<"docs", "/", "a.md">>
PathB == <<"docs", "\\", "b.md">>

\* Python's dict.get(key, default) on a dict given as a function.
DictGet(d, key, default) == IF key \in DOMAIN d THEN d[key] ELSE default

\* A hit's metadata entry: a dict, or null.
Meta(d) == [null |-> FALSE, d |-> d]
NullMeta == [null |-> TRUE, d |-> << >>]

HitA == [id |-> PathA \o <<":", "1">>, text |-> "alpha",
         metadata |-> Meta([file_path |-> PathA, filename |-> <<"a.md">>,
                            chunk_index |-> "1"]),
         distance |-> 20]
HitB == [id |-> PathB \o <<":", "0">>, text |-> "beta",
         metadata |-> Meta([file_path |-> PathB, chunk_index |-> "0"]),
         distance |-> 40]
HitBare == [id |-> PathA \o <<":", "3">>, text |-> "gamma",
            metadata |-> Meta(<< >>), distance |-> 200]
HitNull == [id |-> PathA \o <<":", "2">>, text |-> "delta",
            metadata |-> NullMeta, distance |-> 0]

\* Two rankings a store may hold for a query (ascending distance); the
\* second starts with a null metadata entry.
Rankings == { <<HitA, HitB, HitBare>>, <<HitNull, HitA, HitB>> }

Column(hits, field) == [i \in 1..Len(hits) |-> hits[i][field]]

\* The result of collection.query for one query embedding: one inner list
\* per query.  A store may also answer with no inner list at all.
QueryResult(hits) ==
    [ ids       |-> <<Column(hits, "id")>>,
      documents |-> <<Column(hits, "text")>>,
      metadatas |-> <<Column(hits, "metadata")>>,
      distances |-> <<Column(hits, "distance")>> ]
EmptyResult ==
    [ ids |-> << >>, documents |-> << >>, metadatas |-> << >>, distances |-> << >> ]

\* What the store may answer to a query with n_results = top_k: the first
\* n hits of a ranking, n <= top_k (n = 0: nothing matches), or no list.
StoreReplies(top_k) ==
    {QueryResult(SubSeq(r, 1, Min(n, Len(r)))) : r \in Rankings, n \in 0..top_k}
        \cup {EmptyResult}

\* str.replace("\\", "/").split("/")[-1] on a path.
Slashed(path) == [i \in 1..Len(path) |-> IF path[i] = "\\" THEN "/" ELSE path[i]]
LastSegment(path) ==
    LET p == Slashed(path)
        cuts == {i \in 1..Len(p) : p[i] = "/"}
        last == IF cuts = {} THEN 0 ELSE CHOOSE i \in cuts : \A j \in cuts : j <= i
    IN  SubSeq(p, last + 1, Len(p))

\* One record of context_chunks, built from entry i of the result.
ContextChunk(results, i) ==
    LET doc_id == results.ids[1][i]
        text == IF results.documents # << >> THEN results.documents[1][i] ELSE ""
        metadata == IF results.metadatas # << >> THEN results.metadatas[1][i].d ELSE << >>
        distance == IF results.distances # << >> THEN results.distances[1][i] ELSE 0
        file_path == DictGet(metadata, "file_path", << >>)
    IN  [ text        |-> text,
          file_path   |-> file_path,
          filename    |-> DictGet(metadata, "filename", LastSegment(file_path)),
          distance    |-> distance,
          id          |-> doc_id,
          chunk_index |-> DictGet(metadata, "chunk_index", "") ]

\* (mutant) the records built before the failing hit are returned.
FormatResultsPartial(results) ==
    LET n == IF results.ids # << >> THEN Len(results.ids[1]) ELSE 0
        bad == {i \in 1..n : results.metadatas # << >> /\ results.metadatas[1][i].null}
        good == {i \in 1..n : \A j \in bad : i < j}
    IN  [ok |-> TRUE, chunks |-> [i \in good |-> ContextChunk(results, i)],
         exc |-> NoError]

\* The formatting loop of retrieve_context: the records, or the exception
\* that metadata.get raises on a null entry.
FormatResults(results) ==
    LET n == IF results.ids # << >> THEN Len(results.ids[1]) ELSE 0
        bad == {i \in 1..n : results.metadatas # << >> /\ results.metadatas[1][i].null}
    IN  IF bad # {}
        THEN [ok |-> FALSE, chunks |-> << >>,
              exc |-> Exc("AttributeError", <<"'NoneType' object has no attribute 'get'">>)]
        ELSE [ok |-> TRUE, chunks |-> [i \in 1..n |-> ContextChunk(results, i)],
              exc |-> NoError]


\* ------------------------------------------------------------- ask_mascot
Http(status, detail) ==
    [status |-> status, response |-> detail, sources |-> << >>,
     confidence |-> [num |-> 0, den |-> 1]]

AskResponse(response, sources, confidence) ==
    [status |-> 200, response |-> response, sources |-> sources,
     confidence |-> confidence]

RECURSIVE SumDistances(_)
SumDistances(chunks) ==
    IF chunks = << >> THEN 0 ELSE Head(chunks).distance + SumDistances(Tail(chunks))

\* (mutant) the confidence is not clamped.
ConfidenceUnclamped(chunks) ==
    LET den == 100 * Len(chunks)
    IN  [num |-> den - SumDistances(chunks), den |-> den]

\* max(0.0, min(1.0, 1.0 - avg_distance)) as a fraction: with distances in
\* hundredths, 1 - sum/(100 n) = (100 n - sum) / (100 n).
Confidence(chunks) ==
    LET den == 100 * Len(chunks)
    IN  [num |-> Max(0, Min(den, den - SumDistances(chunks))), den |-> den]

\* The request is over: its locals are gone, its response and its history
\* stay until the thread takes the next request.
Return(s, response) ==
    [IdleThread EXCEPT !.pc = "done", !.mascot = s.mascot, !.ev = s.ev,
                       !.raised = s.raised, !.response = response]

\* An exception that leaves ask_mascot: the framework answers 500.
Propagate(s, e) == Return([Mark(s, "unhandled") EXCEPT !.raised = e], Http(500, e.msg))

\* ask_mascot from the return of generate_response on: sources,
\* confidence, the response.
AskFinish(s, response_text) ==
    Return(s, AskResponse(
                  response_text,
                  [i \in 1..Len(s.context_chunks) |-> s.context_chunks[i].file_path],
                  Confidence(s.context_chunks)))

\* (mutant) generate_response lets the exception through.
GenerateReraise(s, e) == Propagate(Mark(s, "generate_raised"), e)

\* (mutant) a failed generation is answered like an empty retrieval.
GenerateExceptNoSources(s, e) ==
    Return([Mark(s, "generate_caught") EXCEPT !.raised = e],
           AskResponse(<<ApologyPrefix>> \o e.msg, << >>, [num |-> 0, den |-> 1]))

\* The except clause of generate_response.
GenerateExcept(s, e) ==
    AskFinish([Mark(s, "generate_caught") EXCEPT !.raised = e], <<ApologyPrefix>> \o e.msg)

\* (mutant) the empty check is missing: generate_response is always called.
AfterRetrieveUnchecked(s, context_chunks) ==
    [Mark(Mark(s, IF context_chunks = << >> THEN "retrieve_empty" ELSE "retrieve_hits"),
          "generate_response") EXCEPT
        !.context_chunks = context_chunks, !.pc = "get_chat_model"]

\* (mutant) an empty retrieval is scored like any other.
AfterRetrieveScoreAlways(s, context_chunks) ==
    IF context_chunks = << >>
    THEN Return(Mark(s, "retrieve_empty"),
                AskResponse(NoContextText, << >>, Confidence(context_chunks)))
    ELSE [Mark(Mark(s, "retrieve_hits"), "generate_response") EXCEPT
             !.context_chunks = context_chunks, !.pc = "get_chat_model"]

\* ask_mascot from the return of retrieve_context up to the first access of
\* generate_response to a global: the empty check, then the prompt, which
\* is local to the call (see AssemblePrompt).
AfterRetrieve(s, context_chunks) ==
    IF context_chunks = << >>
    THEN Return(Mark(s, "retrieve_empty"),
                AskResponse(NoContextText, << >>, [num |-> 0, den |-> 1]))
    ELSE [Mark(Mark(s, "retrieve_hits"), "generate_response") EXCEPT
             !.context_chunks = context_chunks, !.pc = "get_chat_model"]

\* (mutant) retrieve_context lets the exception through.
RetrieveReraise(s, e) == Propagate(s, e)

\* The except clause of retrieve_context.
RetrieveExcept(s, e) ==
    AfterRetrieve([Mark(s, "retrieve_caught") EXCEPT !.raised = e], << >>)

\* (mutant) the mascot is not validated before retrieval.
ValidateNothing(s) == [s EXCEPT !.pc = "get_embedding_model"]

\* ask_mascot up to the first access of retrieve_context to a global.
Validate(s) ==
    IF s.mascot \notin MASCOT_PERSONALITIES
    THEN Return(s, Http(400, <<"Unknown mascot: ", s.mascot>>))
    ELSE [s EXCEPT !.pc = "get_embedding_model"]

Set(t, s) == th' = [th EXCEPT ![t] = s]

StartRequest(t) ==
    /\ th[t].pc \in {"idle", "done"}
    /\ served < MaxRequests
    /\ \E mascot \in MascotInputs, top_k \in TopKInputs :
          Set(t, Validate([IdleThread EXCEPT !.mascot = mascot, !.top_k = top_k]))
    /\ served' = served + 1
    /\ UNCHANGED <<_embedding_model, _chat_model, _chroma_collection, CHROMA_HOST, pin>>

\* ---------------------------------------------------- get_embedding_model
\* (mutant) the failure is answered as a service-unavailable error.
EmbeddingUnavailableFatal(s, e) ==
    Return([Mark(s, "fail:embedding_resolution") EXCEPT !.raised = e], Http(503, e.msg))

\* No candidate embedding model loads: the exception of the last candidate
\* leaves get_embedding_model inside the try block of retrieve_context.
EmbeddingUnavailable(s, e) == RetrieveExcept(Mark(s, "fail:embedding_resolution"), e)

\* The nested try blocks: one candidate is loaded; on success the global is
\* assigned and returned, on failure the next candidate is tried, and the
\* failure of the last one is raised.
AfterEmbeddingLoad(s, outcome, global) ==
    LET name == EmbeddingModelNames[s.cand]
        a == [Mark(s, "resolve_embedding") EXCEPT
                 !.attempts = Append(@, [kind |-> "embedding", name |-> name,
                                         ok |-> outcome = "ok"])]
    IN  IF outcome = "ok"
        THEN [a EXCEPT !.stored = Handle("embedding", global),
                       !.pc = "return_embedding_model"]
        ELSE IF s.cand < Len(EmbeddingModelNames)
        THEN [a EXCEPT !.cand = @ + 1]
        ELSE EmbeddingUnavailable(Mark(a, "embedding_candidates_failed"),
                                  LoadError(name, outcome))

\* if _embedding_model is None
GetEmbeddingModel(t) ==
    /\ th[t].pc = "get_embedding_model"
    /\ Set(t, IF _embedding_model = NoHandle
              THEN [th[t] EXCEPT !.cand = 1, !.pc = "load_embedding_model"]
              ELSE [th[t] EXCEPT !.pc = "return_embedding_model"])
    /\ UNCHANGED <<_embedding_model, _chat_model, _chroma_collection, CHROMA_HOST,
                   served, pin>>

\* _embedding_model = TextEmbeddingModel.from_pretrained(name)
LoadEmbeddingModel(t) ==
    /\ th[t].pc = "load_embedding_model"
    /\ \E outcome \in LoadOutcomes :
          LET s == AfterEmbeddingLoad(th[t], outcome, _embedding_model)
          IN  /\ Set(t, s)
              /\ IF s.stored # NoHandle
                 THEN _embedding_model' = s.stored
                 ELSE UNCHANGED _embedding_model
    /\ UNCHANGED <<_chat_model, _chroma_collection, CHROMA_HOST, served, pin>>

\* return _embedding_model
ReturnEmbeddingModel(t) ==
    /\ th[t].pc = "return_embedding_model"
    /\ Set(t, EndCall(th[t], "get_embeddings"))
    /\ UNCHANGED <<_embedding_model, _chat_model, _chroma_collection, CHROMA_HOST,
                   served, pin>>

\* query_embedding = embedding_model.get_embeddings([query_text])[0]
AfterGetEmbeddings(s, ok) ==
    LET a == Mark(s, "embed_call")
    IN  IF ok THEN [a EXCEPT !.pc = "get_chroma_collection"]
        ELSE RetrieveExcept(Mark(a, "fail:embed"),
                            Exc("Exception", <<"embedding call failed">>))

GetEmbeddings(t) ==
    /\ th[t].pc = "get_embeddings"
    /\ \E ok \in BOOLEAN : Set(t, AfterGetEmbeddings(th[t], ok))
    /\ UNCHANGED <<_embedding_model, _chat_model, _chroma_collection, CHROMA_HOST,
                   served, pin>>

\* -------------------------------------------------- get_chroma_collection
\* if _chroma_collection is None ... return _chroma_collection
GetChromaCollection(t) ==
    /\ th[t].pc = "get_chroma_collection"
    /\ Set(t, [th[t] EXCEPT !.pc = IF _chroma_collection = NoHandle
                                   THEN "chroma_client"
                                   ELSE "query"])
    /\ UNCHANGED <<_embedding_model, _chat_model, _chroma_collection, CHROMA_HOST,
                   served, pin>>

\* The client: with CHROMA_HOST the HTTP client, whose failure is wrapped;
\* without it the first persist path that holds the collection, else a new
\* database at the default path, whose failure is not caught.
ClientOutcomes == IF CHROMA_HOST THEN {"http", "error"} ELSE {"persistent", "error"}

AfterChromaClient(s, outcome, host) ==
    IF outcome # "error"
    THEN [Mark(s, "resolve_chroma") EXCEPT
             !.client = outcome, !.pc = "chroma_get_collection"]
    ELSE RetrieveExcept(
             Mark(Mark(s, "resolve_chroma"), "fail:chroma_client"),
             Exc("Exception",
                 IF host
                 THEN <<"Failed to connect to ChromaDB service", "Error: ", "connect">>
                 ELSE <<"persistent client">>))

ChromaClient(t) ==
    /\ th[t].pc = "chroma_client"
    /\ \E outcome \in ClientOutcomes :
          Set(t, AfterChromaClient(th[t], outcome, CHROMA_HOST))
    /\ UNCHANGED <<_embedding_model, _chat_model, _chroma_collection, CHROMA_HOST,
                   served, pin>>

\* _chroma_collection = client.get_collection(...), then the print that
\* calls count(): "missing" is get_collection raising, "count_error" is
\* count() raising after the assignment; both are re-raised wrapped.
CollectionOutcomes == {"ok", "missing", "count_error"}

AfterGetCollection(s, outcome, global) ==
    LET a == IF outcome = "missing" THEN s
             ELSE [s EXCEPT !.stored = Handle("chroma", global)]
    IN  IF outcome = "ok"
        THEN EndCall(a, "query")
        ELSE RetrieveExcept(
                 Mark(a, "fail:chroma_collection"),
                 Exc("Exception", <<"ChromaDB collection not found", "Error: ", outcome>>))

ChromaGetCollection(t) ==
    /\ th[t].pc = "chroma_get_collection"
    /\ \E outcome \in CollectionOutcomes :
          /\ Set(t, AfterGetCollection(th[t], outcome, _chroma_collection))
          /\ IF outcome # "missing"
             THEN _chroma_collection' = Handle("chroma", _chroma_collection)
             ELSE UNCHANGED _chroma_collection
    /\ UNCHANGED <<_embedding_model, _chat_model, CHROMA_HOST, served, pin>>

\* results = collection.query(...), the formatting loop and the return.
AfterQuery(s, results) ==
    LET f == FormatResults(results)
    IN  IF f.ok THEN AfterRetrieve(s, f.chunks)
        ELSE RetrieveExcept(Mark(s, "fail:format"), f.exc)

Query(t) ==
    /\ th[t].pc = "query"
    /\ LET s == Mark(th[t], "store_query")
       IN  \/ Set(t, RetrieveExcept(Mark(s, "fail:query"),
                                    Exc("Exception", <<"query failed">>)))
           \/ \E results \in StoreReplies(s.top_k) : Set(t, AfterQuery(s, results))
    /\ UNCHANGED <<_embedding_model, _chat_model, _chroma_collection, CHROMA_HOST,
                   served, pin>>

\* ---------------------------------------------------------- get_chat_model
\* (mutant) only a not-found answer is soft: any other exception ends the
\* loop at once.
AfterChatLoadHardError(s, outcome, global) ==
    LET name == ChatModelNames[s.cand]
        a == [Mark(s, "resolve_chat") EXCEPT
                 !.attempts = Append(@, [kind |-> "chat", name |-> name,
                                         ok |-> outcome = "ok"])]
    IN  IF outcome = "ok"
        THEN [a EXCEPT !.stored = Handle("chat", global),
                       !.pc = "chat_model_loaded"]
        ELSE IF s.cand < Len(ChatModelNames) /\ outcome = "not_found"
        THEN [a EXCEPT !.last_error = LoadError(name, outcome), !.cand = @ + 1]
        ELSE [Mark(a, "chat_candidates_failed") EXCEPT
                 !.last_error = LoadError(name, outcome), !.pc = "chat_model_loaded"]

\* One turn of the loop over model_names: success assigns the global and
\* breaks, any exception is kept as last_error and the loop goes on.
AfterChatLoad(s, outcome, global) ==
    LET name == ChatModelNames[s.cand]
        a == [Mark(s, "resolve_chat") EXCEPT
                 !.attempts = Append(@, [kind |-> "chat", name |-> name,
                                         ok |-> outcome = "ok"])]
    IN  IF outcome = "ok"
        THEN [a EXCEPT !.stored = Handle("chat", global),
                       !.pc = "chat_model_loaded"]
        ELSE IF s.cand < Len(ChatModelNames)
        THEN [a EXCEPT !.last_error = LoadError(name, outcome), !.cand = @ + 1]
        ELSE [Mark(a, "chat_candidates_failed") EXCEPT
                 !.last_error = LoadError(name, outcome), !.pc = "chat_model_loaded"]

\* After the loop: if _chat_model is None: raise ...; return _chat_model
AfterChatLoop(s, global) ==
    IF global = NoHandle
    THEN GenerateExcept(
             Mark(s, "fail:chat_resolution"),
             Exc("Exception",
                 <<"Could not load any Gemini model. Last error: ">> \o s.last_error.msg))
    ELSE EndCall(s, "generate_content")

\* if _chat_model is None ... return _chat_model
GetChatModel(t) ==
    /\ th[t].pc = "get_chat_model"
    /\ Set(t, IF _chat_model = NoHandle
              THEN [th[t] EXCEPT !.cand = 1, !.last_error = NoError,
                                 !.pc = "load_chat_model"]
              ELSE [th[t] EXCEPT !.pc = "generate_content"])
    /\ UNCHANGED <<_embedding_model, _chat_model, _chroma_collection, CHROMA_HOST,
                   served, pin>>

\* _chat_model = GenerativeModel(model_name)
LoadChatModel(t) ==
    /\ th[t].pc = "load_chat_model"
    /\ \E outcome \in LoadOutcomes :
          LET s == AfterChatLoad(th[t], outcome, _chat_model)
          IN  /\ Set(t, s)
              /\ IF s.stored # NoHandle
                 THEN _chat_model' = s.stored
                 ELSE UNCHANGED _chat_model
    /\ UNCHANGED <<_embedding_model, _chroma_collection, CHROMA_HOST, served, pin>>

ChatModelLoaded(t) ==
    /\ th[t].pc = "chat_model_loaded"
    /\ Set(t, AfterChatLoop(th[t], _chat_model))
    /\ UNCHANGED <<_embedding_model, _chat_model, _chroma_collection, CHROMA_HOST,
                   served, pin>>

\* ------------------------------------------------------- generate_response
\* The text the generation model answers with.
Generated(api) == <<"generated by ", api>>

\* response = chat_model.generate_content(...); return response.text
\* "attribute_error": the model has no generate_content, or the response
\* has no text attribute; the inner except clause takes it.
GenerateOutcomes == {"ok", "attribute_error", "error"}

AfterGenerateContent(s, outcome) ==
    LET a == Mark(s, "generate_content")
    IN  CASE outcome = "ok" -> AskFinish(a, Generated("generate_content"))
          [] outcome = "attribute_error" ->
                [Mark(a, "fail:generate_content_attribute") EXCEPT !.pc = "send_message"]
          [] OTHER ->
                GenerateExcept(Mark(a, "fail:generate_content"),
                               Exc("Exception", <<"generate_content failed">>))

GenerateContent(t) ==
    /\ th[t].pc = "generate_content"
    /\ \E outcome \in GenerateOutcomes : Set(t, AfterGenerateContent(th[t], outcome))
    /\ UNCHANGED <<_embedding_model, _chat_model, _chroma_collection, CHROMA_HOST,
                   served, pin>>

\* chat = chat_model.start_chat(); response = chat.send_message(...);
\* return response.text
AfterSendMessage(s, ok) ==
    LET a == Mark(s, "send_message")
    IN  IF ok THEN AskFinish(a, Generated("send_message"))
        ELSE GenerateExcept(Mark(a, "fail:send_message"),
                            Exc("Exception", <<"send_message failed">>))

SendMessage(t) ==
    /\ th[t].pc = "send_message"
    /\ \E ok \in BOOLEAN : Set(t, AfterSendMessage(th[t], ok))
    /\ UNCHANGED <<_embedding_model, _chat_model, _chroma_collection, CHROMA_HOST,
                   served, pin>>

\* --------------------------------------------- generate_response: prompt
\* A text is a sequence of characters; a character is named by the text it
\* comes from and its place in it, so that the origin of every character
\* of the prompt can be told.
Text(origin, n) == [i \in 1..n |-> <<origin, i>>]

\* The personality prompts (229 and 282 characters).
Personality(mascot) ==
    IF mascot = "bill" THEN Text("bill", 282) ELSE Text("gooey", 229)

\* "\n\nUse the following context ... say so honestly.\n\nContext:\n"
Preamble == Text("preamble", 168)
\* "\n\nQuestion: " and "\n\nAnswer:"
QuestionLabel == Text("question_label", 12)
AnswerLabel == Text("answer_label", 9)
\* "\n\n[Context truncated due to length limits]"
TruncationMarker == Text("marker", 42)
\* "From ", ":\n" and the "\n\n" between two entries
FromLabel == Text("from", 5)
ColonNewline == Text("colon_newline", 2)
BlankLine == Text("blank_line", 2)

\* (mutant) the entries are joined in the reverse of the supplied order.
ContextTextReversed(chunks) ==
    LET n == Len(chunks)
        entry(i) == FromLabel \o chunks[i].filename \o ColonNewline \o chunks[i].text
        join[i \in 0..n] ==
            IF i = 0 THEN << >>
            ELSE IF i = 1 THEN entry(n)
            ELSE join[i - 1] \o BlankLine \o entry(n + 1 - i)
    IN  join[n]

\* "\n\n".join(f"From {chunk['filename']}:\n{chunk['text']}" for chunk ...)
RECURSIVE ContextText(_)
ContextText(chunks) ==
    IF chunks = << >> THEN << >>
    ELSE LET c == Head(chunks)
             entry == FromLabel \o c.filename \o ColonNewline \o c.text
         IN  IF Len(chunks) = 1 THEN entry
             ELSE entry \o BlankLine \o ContextText(Tail(chunks))

\* (mutant) the slice keeps the end of the text instead of its start.
SliceFromEnd(s, n) ==
    IF n >= 0 THEN SubSeq(s, Len(s) - Min(n, Len(s)) + 1, Len(s))
    ELSE SubSeq(s, 1 - n, Len(s))

\* Python's s[:n]: the first n characters, and for a negative n all but
\* the last -n.
SliceTo(s, n) ==
    IF n >= 0 THEN SubSeq(s, 1, Min(n, Len(s)))
    ELSE SubSeq(s, 1, Max(0, Len(s) + n))

PromptHead(personality) == personality \o Preamble
PromptTail(question) == QuestionLabel \o question \o AnswerLabel

\* (mutant) the marker is appended only when some context is left to keep.
AssemblePromptSilent(personality, context_chunks, question, MAX_INPUT_TOKENS) ==
    LET context_text == ContextText(context_chunks)
        prompt == personality \o Preamble \o context_text
                      \o QuestionLabel \o question \o AnswerLabel
        max_input_chars == MAX_INPUT_TOKENS * 4
        available_chars ==
            max_input_chars - Len(PromptHead(personality)) - Len(PromptTail(question))
        truncated == IF Len(context_text) > available_chars /\ available_chars > 0
                     THEN SliceTo(context_text, available_chars) \o TruncationMarker
                     ELSE SliceTo(context_text, Max(available_chars, 0))
    IN  IF Len(prompt) > max_input_chars
        THEN PromptHead(personality) \o truncated \o PromptTail(question)
        ELSE prompt

\* The prompt of generate_response: the f-string, and its rebuilding when
\* it is longer than max_input_chars = MAX_INPUT_TOKENS * 4.
AssemblePrompt(personality, context_chunks, question, MAX_INPUT_TOKENS) ==
    LET context_text == ContextText(context_chunks)
        prompt == personality \o Preamble \o context_text
                      \o QuestionLabel \o question \o AnswerLabel
        max_input_chars == MAX_INPUT_TOKENS * 4
        personality_and_question == PromptHead(personality)
        question_part == PromptTail(question)
        available_chars ==
            max_input_chars - Len(personality_and_question) - Len(question_part)
        truncated == IF Len(context_text) > available_chars
                     THEN SliceTo(context_text, available_chars) \o TruncationMarker
                     ELSE context_text
    IN  IF Len(prompt) > max_input_chars
        THEN personality_and_question \o truncated \o question_part
        ELSE prompt

\* Inputs of the prompt assembly.
MaxChunks == 2
ChunkTexts == {Text("text_a", 10), Text("text_b", 500)}
PromptChunks == [filename : {Text("a.md", 4)}, text : ChunkTexts]
ChunkLists == UNION {[1..n -> PromptChunks] : n \in 1..MaxChunks}
Questions == {Text("question", 1), Text("question", 30)}
\* MAX_INPUT_TOKENS is read from the environment (default 4096).
TokenLimits == {50, 100, 110, 4096}

PromptInit ==
    \E mascot \in MASCOT_PERSONALITIES, chunks \in ChunkLists,
       question \in Questions, limit \in TokenLimits :
        pin = [phase |-> "input", mascot |-> mascot, chunks |-> chunks,
               question |-> question, MAX_INPUT_TOKENS |-> limit, prompt |-> << >>]

Assemble ==
    /\ pin.phase = "input"
    /\ pin' = [pin EXCEPT !.phase = "assembled",
                          !.prompt = AssemblePrompt(Personality(pin.mascot), pin.chunks,
                                                    pin.question, pin.MAX_INPUT_TOKENS)]
    /\ UNCHANGED svcVars

\* ------------------------------------- retrieve_context: normalization
\* Inputs of the formatting loop: what collection.query may return.  Beside
\* the hits above: a second chunk of the file of HitA, and a hit without
\* metadata whose id holds no ":".
MaxHits == 2
HitDup == [id |-> PathA \o <<":", "4">>, text |-> "epsilon",
           metadata |-> Meta([file_path |-> PathA, filename |-> <<"a.md">>,
                              chunk_index |-> "4"]),
           distance |-> 30]
HitNoColon == [id |-> <<"readme">>, text |-> "zeta", metadata |-> Meta(<< >>),
               distance |-> 50]
FormatHits == {HitA, HitB, HitBare, HitNull, HitDup, HitNoColon}
\* The hits of one reply have different ids.
HitLists ==
    UNION {{h \in [1..n -> FormatHits] : \A i, j \in 1..n : i # j => h[i].id # h[j].id}
           : n \in 0..MaxHits}
FormatReplies == {QueryResult(h) : h \in HitLists} \cup {EmptyResult}

FormatInit ==
    \E results \in FormatReplies :
        pin = [phase |-> "reply", results |-> results, context_chunks |-> << >>,
               sources |-> << >>]

\* retrieve_context from the reply of the store on (the formatting loop,
\* and the except clause that returns []), then the sources of ask_mascot.
Normalize ==
    /\ pin.phase = "reply"
    /\ LET f == FormatResults(pin.results)
           context_chunks == IF f.ok THEN f.chunks ELSE << >>
       IN  pin' = [pin EXCEPT
                      !.phase = "normalized",
                      !.context_chunks = context_chunks,
                      !.sources = [i \in 1..Len(context_chunks) |->
                                      context_chunks[i].file_path]]
    /\ UNCHANGED svcVars

\* ------------------------------------------------- ask_mascot: confidence
\* Inputs of the confidence computation: the distances of a non-empty
\* context_chunks (hundredths; a store may report values below 0 and
\* above 1).
MaxDistances == 3
DistanceValues == {-50, 0, 20, 40, 100, 200}
DistanceLists == UNION {[1..n -> DistanceValues] : n \in 1..MaxDistances}
ChunksAt(distances) == [i \in 1..Len(distances) |-> [distance |-> distances[i]]]

ConfidenceInit ==
    \E distances \in DistanceLists :
        pin = [phase |-> "distances", distances |-> distances,
               confidence |-> [num |-> 0, den |-> 1]]

\* avg_distance = sum(...) / len(context_chunks); confidence = max(0.0, min(1.0, ...))
Score ==
    /\ pin.phase = "distances"
    /\ pin' = [pin EXCEPT !.phase = "scored",
                          !.confidence = Confidence(ChunksAt(pin.distances))]
    /\ UNCHANGED svcVars

\* -------------------------------------------------- ingestion loaders
\* os.path.basename of extract_metadata: the part after the last
\* separator, "/" on POSIX, "/" or "\" on Windows.
Basename(path, os) ==
    IF os = "nt" THEN LastSegment(path)
    ELSE LET cuts == {i \in 1..Len(path) : path[i] = "/"}
             last == IF cuts = {} THEN 0 ELSE CHOOSE i \in cuts : \A j \in cuts : j <= i
         IN  SubSeq(path, last + 1, Len(path))

\* str() of a chunk index.
Str(n) == <<"0", "1", "2", "3", "4", "5", "6", "7", "8", "9">>[n + 1]

\* The items of the embeddings file: text, metadata as extract_metadata
\* wrote it on either operating system, and the embedding.  The second
\* chunk of a file is longer than the 500 characters the JSONL keeps.
MaxItems == 2
ItemPaths == {PathA, PathB}
ItemText(chunk_index) == IF chunk_index = 0 THEN Text("chunk", 3) ELSE Text("chunk", 502)
Items ==
    {[text |-> ItemText(chunk_index),
      metadata |-> [file_path |-> path, filename |-> Basename(path, os),
                    chunk_index |-> chunk_index],
      embedding |-> <<"vector", path, chunk_index>>]
        : path \in ItemPaths, os \in {"posix", "nt"}, chunk_index \in 0..1}
ItemLists == UNION {[1..n -> Items] : n \in 1..MaxItems}

LoaderInit ==
    \E embeddings_data \in ItemLists :
        pin = [phase |-> "embeddings", embeddings_data |-> embeddings_data,
               records |-> << >>]

\* The record load_embeddings_to_chromadb adds for one item.
ChromaRecord(item) ==
    LET file_path == item.metadata.file_path
        chunk_index == item.metadata.chunk_index
    IN  [id |-> file_path \o <<":", Str(chunk_index)>>,
         embedding |-> item.embedding,
         document |-> item.text,
         metadata |-> [file_path |-> file_path,
                       chunk_index |-> Str(chunk_index),
                       filename |-> LastSegment(item.metadata.file_path)]]

\* The line convert_to_jsonl writes for one item.
JsonlRecord(item) ==
    LET file_path == item.metadata.file_path
        chunk_idx == item.metadata.chunk_index
    IN  [id |-> file_path \o <<":", Str(chunk_idx)>>,
         embedding |-> item.embedding,
         metadata |-> [file_path |-> item.metadata.file_path,
                       filename |-> item.metadata.filename,
                       chunk_index |-> Str(item.metadata.chunk_index),
                       text |-> SliceTo(item.text, 500)]]

LoadEmbeddingsToChromadb ==
    /\ pin.phase = "embeddings"
    /\ pin' = [pin EXCEPT !.phase = "chromadb",
                          !.records = [i \in 1..Len(pin.embeddings_data) |->
                                          ChromaRecord(pin.embeddings_data[i])]]
    /\ UNCHANGED svcVars

ConvertToJsonl ==
    /\ pin.phase = "embeddings"
    /\ pin' = [pin EXCEPT !.phase = "jsonl",
                          !.records = [i \in 1..Len(pin.embeddings_data) |->
                                          JsonlRecord(pin.embeddings_data[i])]]
    /\ UNCHANGED svcVars

\* ------------------------------------------------- ingestion pipeline
\* process_repository, create_embeddings and load_embeddings_to_chromadb
\* run one after the other on a repository of two markdown files; what
\* matters of a file here is the number of chunks chunk_text cuts it into.
MaxDocChunks == 4
batch_size == 5
DocPaths == <<PathA, PathB>>
DocChunkCounts ==
    {counts \in [1..Len(DocPaths) -> 0..MaxDocChunks] : counts[1] >= 1}

PipelineInit ==
    \E counts \in DocChunkCounts :
        pin = [phase |-> "repository", counts |-> counts, chunks_data |-> << >>,
               embeddings_data |-> << >>, records |-> << >>]

\* The chunk records of one file: enumerate(chunks) with extract_metadata.
DocChunks(path, n) ==
    [idx \in 1..n |->
        [text |-> <<"chunk", path, idx - 1>>,
         metadata |-> [file_path |-> path, filename |-> Basename(path, "posix"),
                       chunk_index |-> idx - 1, total_chunks |-> n,
                       source |-> "github"]]]

ProcessRepository ==
    /\ pin.phase = "repository"
    /\ LET loop[d \in 0..Len(DocPaths)] ==
               IF d = 0 THEN << >>
               ELSE loop[d - 1] \o DocChunks(DocPaths[d], pin.counts[d])
       IN  pin' = [pin EXCEPT !.phase = "chunks",
                              !.chunks_data = loop[Len(DocPaths)]]
    /\ UNCHANGED svcVars

\* The batches of create_embeddings: batch b holds the chunks from
\* (b - 1) * batch_size + 1 on; a batch whose get_embeddings call raises
\* is reported and skipped.
Batches(chunks_data) == (Len(chunks_data) + batch_size - 1) \div batch_size
Batch(chunks_data, b) ==
    SubSeq(chunks_data, (b - 1) * batch_size + 1,
           Min(b * batch_size, Len(chunks_data)))
Embedded(batch) ==
    [i \in 1..Len(batch) |->
        [text |-> batch[i].text, metadata |-> batch[i].metadata,
         embedding |-> <<"vector", batch[i].text>>]]

\* The embeddings_data create_embeddings saves, given the outcome of the
\* get_embeddings call of each batch.
EmbedBatches(chunks_data, outcomes) ==
    LET loop[b \in 0..Batches(chunks_data)] ==
            IF b = 0 THEN << >>
            ELSE IF outcomes[b] = "ok"
            THEN loop[b - 1] \o Embedded(Batch(chunks_data, b))
            ELSE loop[b - 1]
    IN  loop[Batches(chunks_data)]

CreateEmbeddings ==
    /\ pin.phase = "chunks"
    /\ \E outcomes \in [1..Batches(pin.chunks_data) -> {"ok", "error"}] :
          pin' = [pin EXCEPT !.phase = "embeddings",
                             !.embeddings_data = EmbedBatches(pin.chunks_data, outcomes)]
    /\ UNCHANGED svcVars

\* ------------------------------------------------------------ chunk_text
\* The text after re.sub and split is a list of paragraphs.  A paragraph is
\* given by its length after strip() and by the lengths of the sentences
\* re.split(r'[.!?]+\s+') cuts it into (the separators, two characters
\* each here, are not part of any sentence).  A piece of a chunk is one
\* whole paragraph (sent = 0) or one sentence of a paragraph, named by its
\* place in the text; the chunk is its pieces joined by "\n\n".
Paragraph(sentences) ==
    LET sum[i \in 0..Len(sentences)] ==
            IF i = 0 THEN 0 ELSE sum[i - 1] + sentences[i]
    IN  [size |-> sum[Len(sentences)] + 2 * Max(0, Len(sentences) - 1),
         sentences |-> sentences]

Piece(para, sent, len) == [para |-> para, sent |-> sent, len |-> len]

\* len('\n\n'.join(chunk))
ChunkLen(chunk) ==
    LET sum[i \in 0..Len(chunk)] == IF i = 0 THEN 0 ELSE sum[i - 1] + chunk[i].len
    IN  sum[Len(chunk)] + 2 * Max(0, Len(chunk) - 1)

\* (mutant) the buffer is flushed even when it is empty.
FlushedUnconditionally(st) == Append(st.chunks, st.current_chunk)

\* if current_chunk: chunks.append('\n\n'.join(current_chunk))
Flushed(st) ==
    IF st.current_chunk # << >> THEN Append(st.chunks, st.current_chunk) ELSE st.chunks

\* One turn of the loop over the sentences of an oversized paragraph.
SentenceStep(st, sentence, max_chunk_size) ==
    IF sentence.len = 0 THEN st
    ELSE IF st.current_size + sentence.len > max_chunk_size
    THEN [chunks |-> Flushed(st), current_chunk |-> <<sentence>>,
          current_size |-> sentence.len]
    ELSE [st EXCEPT !.current_chunk = Append(@, sentence),
                    !.current_size = @ + sentence.len + 2]

\* (mutant) a new chunk is never seeded with a piece of the flushed one.
StartChunkNoOverlap(st, k, para, overlap) ==
    [chunks |-> Append(st.chunks, st.current_chunk),
     current_chunk |-> <<Piece(k, 0, para.size)>>,
     current_size |-> para.size]

\* (mutant) the paragraph that triggers the flush is left out of the new
\* chunk.
StartChunkDropsParagraph(st, k, para, overlap) ==
    IF overlap > 0
    THEN LET overlap_text == st.current_chunk[Len(st.current_chunk)]
         IN  [chunks |-> Append(st.chunks, st.current_chunk),
              current_chunk |-> <<overlap_text>>,
              current_size |-> overlap_text.len]
    ELSE [chunks |-> Append(st.chunks, st.current_chunk),
          current_chunk |-> << >>,
          current_size |-> 0]

\* (mutant) a new chunk is seeded with the last piece of the flushed one
\* whatever the overlap is.
StartChunkAlwaysOverlap(st, k, para, overlap) ==
    LET overlap_text == st.current_chunk[Len(st.current_chunk)]
    IN  [chunks |-> Append(st.chunks, st.current_chunk),
         current_chunk |-> <<overlap_text, Piece(k, 0, para.size)>>,
         current_size |-> overlap_text.len + para.size + 2]

\* The buffer is flushed and a new chunk starts with paragraph k, after
\* the last piece of the flushed chunk when overlap > 0.
StartChunk(st, k, para, overlap) ==
    IF overlap > 0
    THEN LET overlap_text == st.current_chunk[Len(st.current_chunk)]
         IN  [chunks |-> Append(st.chunks, st.current_chunk),
              current_chunk |-> <<overlap_text, Piece(k, 0, para.size)>>,
              current_size |-> overlap_text.len + para.size + 2]
    ELSE [chunks |-> Append(st.chunks, st.current_chunk),
          current_chunk |-> <<Piece(k, 0, para.size)>>,
          current_size |-> para.size]

\* (mutant) a paragraph that fills the chunk exactly triggers the flush.
OverflowsAtLimit(st, para, max_chunk_size) ==
    st.current_size + para.size >= max_chunk_size /\ st.current_chunk # << >>

\* if current_size + para_size > max_chunk_size and current_chunk
Overflows(st, para, max_chunk_size) ==
    st.current_size + para.size > max_chunk_size /\ st.current_chunk # << >>

\* One turn of the loop over the paragraphs: paragraph k of the text.
ParagraphStep(st, k, para, max_chunk_size, overlap) ==
    IF para.size = 0 THEN st
    ELSE IF para.size > max_chunk_size
    THEN LET flushed == [chunks |-> Flushed(st), current_chunk |-> << >>,
                         current_size |-> 0]
             loop[j \in 0..Len(para.sentences)] ==
                 IF j = 0 THEN flushed
                 ELSE SentenceStep(loop[j - 1], Piece(k, j, para.sentences[j]),
                                   max_chunk_size)
         IN  loop[Len(para.sentences)]
    ELSE IF Overflows(st, para, max_chunk_size)
    THEN StartChunk(st, k, para, overlap)
    ELSE [st EXCEPT !.current_chunk = Append(@, Piece(k, 0, para.size)),
                    !.current_size = @ + para.size + 2]

\* chunk_text from the list of paragraphs on.
ChunkText(paragraphs, max_chunk_size, overlap) ==
    LET loop[k \in 0..Len(paragraphs)] ==
            IF k = 0 THEN [chunks |-> << >>, current_chunk |-> << >>, current_size |-> 0]
            ELSE ParagraphStep(loop[k - 1], k, paragraphs[k], max_chunk_size, overlap)
    IN  Flushed(loop[Len(paragraphs)])

\* Inputs of chunk_text: an empty paragraph, paragraphs of 1, 4, 9 and 10
\* characters, and paragraphs of 14, 17 and 18 characters that hold 2, 2
\* and 4 sentences.
MaxParagraphs == 3
ParagraphInputs ==
    {Paragraph(<<0>>), Paragraph(<<1>>), Paragraph(<<4>>), Paragraph(<<9>>),
     Paragraph(<<10>>),
     Paragraph(<<6, 6>>), Paragraph(<<12, 3>>), Paragraph(<<3, 3, 3, 3>>)}
ParagraphLists == UNION {[1..n -> ParagraphInputs] : n \in 0..MaxParagraphs}
ChunkSizeInputs == {10}
OverlapInputs == {0, 1, 200}

ChunkInit ==
    \E paragraphs \in ParagraphLists, max_chunk_size \in ChunkSizeInputs,
       overlap \in OverlapInputs :
        pin = [phase |-> "text", paragraphs |-> paragraphs,
               max_chunk_size |-> max_chunk_size, overlap |-> overlap,
               chunks |-> << >>]

ChunkTextCall ==
    /\ pin.phase = "text"
    /\ pin' = [pin EXCEPT !.phase = "chunked",
                          !.chunks = ChunkText(pin.paragraphs, pin.max_chunk_size,
                                               pin.overlap)]
    /\ UNCHANGED svcVars

\* ------------------------------------------------------------ specification
SvcInit ==
    /\ _embedding_model = NoHandle
    /\ _chat_model = NoHandle
    /\ _chroma_collection = NoHandle
    /\ CHROMA_HOST \in BOOLEAN
    /\ th = [t \in Threads |-> IdleThread]
    /\ served = 0

PromptIdle ==
    [phase |-> "off", mascot |-> "", chunks |-> << >>, question |-> << >>,
     MAX_INPUT_TOKENS |-> 0, prompt |-> << >>]

Init == SvcInit /\ pin = PromptIdle

Next ==
    \E t \in Threads :
    \/ StartRequest(t)
    \/ GetEmbeddingModel(t)
    \/ LoadEmbeddingModel(t)
    \/ ReturnEmbeddingModel(t)
    \/ GetEmbeddings(t)
    \/ GetChromaCollection(t)
    \/ ChromaClient(t)
    \/ ChromaGetCollection(t)
    \/ Query(t)
    \/ GetChatModel(t)
    \/ LoadChatModel(t)
    \/ ChatModelLoaded(t)
    \/ GenerateContent(t)
    \/ SendMessage(t)

Spec == Init /\ [][Next]_vars

PromptSpecInit == SvcInit /\ PromptInit

PromptSpec == PromptSpecInit /\ [][Assemble]_vars

ConfidenceSpecInit == SvcInit /\ ConfidenceInit

ConfidenceSpec == ConfidenceSpecInit /\ [][Score]_vars

FormatSpecInit == SvcInit /\ FormatInit

FormatSpec == FormatSpecInit /\ [][Normalize]_vars

LoaderSpecInit == SvcInit /\ LoaderInit

LoaderNext == LoadEmbeddingsToChromadb \/ ConvertToJsonl

LoaderSpec == LoaderSpecInit /\ [][LoaderNext]_vars

PipelineSpecInit == SvcInit /\ PipelineInit

PipelineNext == ProcessRepository \/ CreateEmbeddings \/ LoadEmbeddingsToChromadb

PipelineSpec == PipelineSpecInit /\ [][PipelineNext]_vars

ChunkSpecInit == SvcInit /\ ChunkInit

ChunkSpec == ChunkSpecInit /\ [][ChunkTextCall]_vars


\* ================================================================= claims
Done(t) == th[t].pc = "done"

RetrievalFailures ==
    {"fail:embedding_resolution", "fail:embed", "fail:chroma_client",
     "fail:chroma_collection", "fail:query", "fail:format"}

GenerationEvents == {"generate_response", "resolve_chat", "generate_content", "send_message"}

IsNoContextAnswer(r) ==
    /\ r.status = 200
    /\ r.response = <<"I couldn't find relevant information in the knowledge base. Please try rephrasing your question.">>
    /\ r.sources = << >>
    /\ r.confidence.num = 0

\* C1: whenever retrieve_context returns the empty list, the request ends
\* with the fixed "I couldn't find relevant information..." answer, no
\* sources and confidence 0.0, and neither generate_response nor the
\* generation model is used by that request.
C1_EmptyRetrievalSkipsGeneration ==
    \A t \in Threads :
        "retrieve_empty" \in th[t].ev =>
            /\ Done(t)
            /\ IsNoContextAnswer(th[t].response)
            /\ th[t].ev \cap GenerationEvents = {}

\* A request whose query found no hit has been answered.
C1_Witness ==
    \E t \in Threads :
        /\ Done(t)
        /\ "retrieve_empty" \in th[t].ev
        /\ "store_query" \in th[t].ev
        /\ "retrieve_caught" \notin th[t].ev

\* C2: retrieve_context never raises: after any failure of the embedding
\* model resolution, the embedding call, the Chroma client or collection,
\* the query or the formatting of the result, the except clause has run,
\* the empty list was returned and no exception left ask_mascot.
C2_RetrieveContextNeverRaises ==
    \A t \in Threads :
        th[t].ev \cap RetrievalFailures # {} =>
            /\ "retrieve_caught" \in th[t].ev
            /\ "retrieve_empty" \in th[t].ev
            /\ "unhandled" \notin th[t].ev
            /\ th[t].response.status = 200
            /\ th[t].raised # NoError

\* One request met a malformed store response, another a failing store.
C2_Witness ==
    \E t, u \in Threads :
        /\ "fail:format" \in th[t].ev
        /\ th[u].ev \cap {"fail:query", "fail:chroma_client", "fail:chroma_collection"} # {}

\* C3 as stated: when no candidate embedding model can be resolved, the
\* caller of ask_mascot gets a service-unavailable error.
C3_EmbeddingUnavailableIsAnError ==
    \A t \in Threads :
        "fail:embedding_resolution" \in th[t].ev => th[t].response.status = 503

\* C3 amended: when no candidate embedding model can be resolved, the
\* failure is caught inside retrieve_context and ask_mascot returns the
\* normal fixed no-information answer (status 200, no sources, confidence
\* 0.0); nothing else of the pipeline runs for that request.
C3_EmbeddingUnavailableIsNoContext ==
    \A t \in Threads :
        "fail:embedding_resolution" \in th[t].ev =>
            /\ Done(t)
            /\ IsNoContextAnswer(th[t].response)
            /\ th[t].ev \cap ({"embed_call", "resolve_chroma", "store_query"}
                              \cup GenerationEvents) = {}

\* A request for which all three embedding candidates failed is answered.
C3_Witness ==
    \E t \in Threads :
        /\ Done(t)
        /\ {"fail:embedding_resolution", "embedding_candidates_failed"} \subseteq th[t].ev

GenerationFailures ==
    {"fail:chat_resolution", "fail:generate_content",
     "fail:generate_content_attribute", "fail:send_message"}

IsApologyFor(r, e) ==
    /\ r.status = 200
    /\ r.response = <<"I apologize, but I encountered an error: ">> \o e.msg
    /\ e.msg # << >>

\* C4 as stated: every failure in the generation step (no chat model
\* resolved, the generate call failing, the response lacking a text
\* attribute) ends in the apology text holding the error detail.
C4_EveryGenerationFailureApologises ==
    \A t \in Threads :
        (Done(t) /\ th[t].ev \cap GenerationFailures # {}) =>
            IsApologyFor(th[t].response, th[t].raised)

\* C4 amended: generate_response never raises and ask_mascot answers 200.
\* A failed chat model resolution, a generate_content call failing with
\* anything but an AttributeError, and a failing chat fallback end in the
\* apology text holding the error detail.  An AttributeError of the
\* generate_content call or of its response (no text attribute) is not
\* reported: the call is repeated through start_chat / send_message, and
\* when that succeeds its text is the answer.
C4_GenerationFailureHandling ==
    \A t \in Threads :
        LET s == th[t] IN
        /\ "generate_response" \in s.ev => "unhandled" \notin s.ev
        /\ (Done(t) /\ "generate_response" \in s.ev) => s.response.status = 200
        /\ s.ev \cap {"fail:chat_resolution", "fail:generate_content", "fail:send_message"} # {}
              => /\ Done(t)
                 /\ "generate_caught" \in s.ev
                 /\ IsApologyFor(s.response, s.raised)
        /\ "fail:chat_resolution" \in s.ev
              => /\ Head(s.raised.msg) = "Could not load any Gemini model. Last error: "
                 /\ Len(s.raised.msg) > 1
        /\ "fail:generate_content" \in s.ev => s.raised.msg = <<"generate_content failed">>
        /\ "fail:send_message" \in s.ev => s.raised.msg = <<"send_message failed">>
        /\ ("fail:generate_content_attribute" \in s.ev /\ "fail:send_message" \notin s.ev)
              => \/ s.pc = "send_message"
                 \/ /\ Done(t)
                    /\ "send_message" \in s.ev
                    /\ "generate_caught" \notin s.ev
                    /\ s.response.response = <<"generated by ", "send_message">>

\* The chat fallback failed after an AttributeError, and the request was
\* answered with the apology.
C4_Witness ==
    \E t \in Threads :
        /\ Done(t)
        /\ {"fail:generate_content_attribute", "fail:send_message"} \subseteq th[t].ev

\* C5: a request whose mascot is not a key of MASCOT_PERSONALITIES is
\* answered 400 before anything else runs: it makes no embedding call, no
\* store query, no generation call and resolves no cached handle.
C5_UnknownMascotRejectedFirst ==
    \A t \in Threads :
        (th[t].pc # "idle" /\ th[t].mascot \notin {"gooey", "bill"}) =>
            /\ Done(t)
            /\ th[t].response.status = 400
            /\ th[t].ev = {}

\* A request for an unknown mascot has been rejected.
C5_Witness ==
    \E t \in Threads :
        Done(t) /\ th[t].mascot = "clippy" /\ th[t].response.status = 400

\* The threads that are constructing a handle of the given kind: they saw
\* the global unset and have not returned yet.
Constructing(kind) ==
    {t \in Threads :
        th[t].pc \in (CASE kind = "embedding" -> {"load_embedding_model"}
                        [] kind = "chat" -> {"load_chat_model"}
                        [] OTHER -> {"chroma_client", "chroma_get_collection"})}

\* C6: single-flight initialisation: for each of the three handles, two
\* concurrent first callers never both see it unset and both construct it,
\* so the global is assigned at most one constructed object in the life of
\* the process.
C6_SingleFlightInitialisation ==
    /\ \A kind \in {"embedding", "chat", "chroma"} : Cardinality(Constructing(kind)) <= 1
    /\ _embedding_model.build <= 1
    /\ _chat_model.build <= 1
    /\ _chroma_collection.build <= 1

\* C7: a handle that has been cached is never replaced or reset afterwards,
\* and a call that finds it cached attempts no candidate and constructs no
\* client.
C7_CachedHandleNeverReplaced ==
    [][ /\ (_embedding_model # NoHandle => _embedding_model' = _embedding_model)
        /\ (_chat_model # NoHandle => _chat_model' = _chat_model)
        /\ (_chroma_collection # NoHandle => _chroma_collection' = _chroma_collection)
        /\ \A t \in Threads :
              /\ (th[t].pc = "get_embedding_model" /\ _embedding_model # NoHandle)
                    => th'[t].pc \in {"get_embedding_model", "return_embedding_model"}
              /\ (th[t].pc = "get_chat_model" /\ _chat_model # NoHandle)
                    => th'[t].pc \in {"get_chat_model", "generate_content"}
              /\ (th[t].pc = "get_chroma_collection" /\ _chroma_collection # NoHandle)
                    => th'[t].pc \in {"get_chroma_collection", "query"} ]_vars

CandidateNames(kind) == IF kind = "chat" THEN ChatModelNames ELSE EmbeddingModelNames

\* C8: within one resolution the candidates are tried in the order of the
\* list, every failure (not-found or other) moves on to the next candidate,
\* and the first success ends it: every attempt but the last has failed,
\* the object the call constructs comes from the first candidate that
\* loaded, and the resolution gives up only after the last candidate.
C8_CandidatesInOrderUntilFirstSuccess ==
    \A t \in Threads :
        LET s == th[t]
            n == Len(s.attempts)
            kind == IF s.pc \in {"load_embedding_model", "return_embedding_model"}
                    THEN "embedding" ELSE "chat"
        IN  /\ n <= Len(CandidateNames(kind))
            /\ \A i \in 1..n : /\ s.attempts[i].kind = kind
                                /\ s.attempts[i].name = CandidateNames(kind)[i]
            /\ \A i \in 1..(n - 1) : ~s.attempts[i].ok
            /\ (s.stored # NoHandle /\ s.stored.kind # "chroma")
                  <=> (n > 0 /\ s.attempts[n].ok)
            /\ s.pc \in {"load_embedding_model", "load_chat_model"}
                  => /\ s.cand = n + 1
                     /\ s.cand <= Len(CandidateNames(kind))
                     /\ s.stored = NoHandle
            /\ (s.pc = "chat_model_loaded" /\ s.stored = NoHandle)
                  => n = Len(ChatModelNames)
            /\ (s.pc = "return_embedding_model" /\ n > 0) => s.attempts[n].ok
            /\ (Done(t) /\ "fail:embedding_resolution" \in s.ev)
                  => s.raised.msg[2] = EmbeddingModelNames[Len(EmbeddingModelNames)]

\* A chat resolution whose second candidate failed with an error that is
\* not a not-found answer, and whose third candidate loaded.
C8_Witness ==
    \E t \in Threads :
        /\ th[t].pc = "chat_model_loaded"
        /\ Len(th[t].attempts) = 3
        /\ th[t].attempts[3].ok
        /\ th[t].last_error = LoadError(ChatModelNames[2], "error")

\* C9: a resolution fails exactly when every one of its candidates has
\* failed, and its error then carries the error of the last candidate.
C9_ResolutionFailsIffAllCandidatesFail ==
    \A t \in Threads :
        LET s == th[t]
        IN  /\ ("chat_candidates_failed" \in s.ev /\ s.pc # "chat_model_loaded")
                  => "fail:chat_resolution" \in s.ev
            /\ "fail:chat_resolution" \in s.ev => "chat_candidates_failed" \in s.ev
            /\ "embedding_candidates_failed" \in s.ev
                  <=> "fail:embedding_resolution" \in s.ev
            /\ (Done(t) /\ "fail:chat_resolution" \in s.ev)
                  => /\ s.raised.msg[1] = "Could not load any Gemini model. Last error: "
                     /\ s.raised.msg[3] = ChatModelNames[Len(ChatModelNames)]
            /\ (Done(t) /\ "fail:embedding_resolution" \in s.ev)
                  => s.raised.msg[2] = EmbeddingModelNames[Len(EmbeddingModelNames)]

\* C10: whenever the composed prompt is longer than max_input_chars, the
\* final prompt is the head, the first available = max_input_chars -
\* len(head) - len(tail) characters of the context block, the truncation
\* marker and the tail, and so is at most max_input_chars + len(marker)
\* characters long.
C10_TruncatedToAvailable ==
    pin.phase = "assembled" =>
        LET head == PromptHead(Personality(pin.mascot))
            tail == PromptTail(pin.question)
            context_block == ContextText(pin.chunks)
            max_input_chars == pin.MAX_INPUT_TOKENS * 4
            available == max_input_chars - Len(head) - Len(tail)
        IN  Len(head) + Len(context_block) + Len(tail) > max_input_chars =>
                /\ pin.prompt = head \o SubSeq(context_block, 1, available)
                                     \o TruncationMarker \o tail
                /\ Len(pin.prompt) <= max_input_chars + Len(TruncationMarker)

\* The inputs of an assembled prompt, as the claims name them.
PinHead == PromptHead(Personality(pin.mascot))
PinTail == PromptTail(pin.question)
PinContextBlock == ContextText(pin.chunks)
PinMaxInputChars == pin.MAX_INPUT_TOKENS * 4
PinAvailable == PinMaxInputChars - Len(PinHead) - Len(PinTail)
OverBudget ==
    /\ pin.phase = "assembled"
    /\ Len(PinHead) + Len(PinContextBlock) + Len(PinTail) > PinMaxInputChars
UnderBudget ==
    /\ pin.phase = "assembled"
    /\ Len(PinHead) + Len(PinContextBlock) + Len(PinTail) <= PinMaxInputChars

Contains(s, part) ==
    \E i \in 1..(Len(s) - Len(part) + 1) : SubSeq(s, i, i + Len(part) - 1) = part

EndsWith(s, part) ==
    /\ Len(s) >= Len(part)
    /\ SubSeq(s, Len(s) - Len(part) + 1, Len(s)) = part

\* C11: whenever the composed prompt is longer than max_input_chars, the
\* final prompt contains the truncation marker and ends with the tail
\* "Question: {question} / Answer:" holding the question verbatim.
C11_OverBudgetKeepsMarkerAndQuestion ==
    OverBudget =>
        /\ Contains(pin.prompt, TruncationMarker)
        /\ EndsWith(pin.prompt, QuestionLabel \o pin.question \o AnswerLabel)

\* An over-budget prompt whose head and tail alone exceed the budget.
C11_Witness == OverBudget /\ PinAvailable < 0

\* The context block as the claim describes it: one entry per chunk, in
\* the supplied order, a blank line between two entries.
EntryOf(chunk) == FromLabel \o chunk.filename \o ColonNewline \o chunk.text
EntriesInOrder(chunks) ==
    LET join[i \in 0..Len(chunks)] ==
            IF i = 0 THEN << >>
            ELSE IF i = 1 THEN EntryOf(chunks[1])
            ELSE join[i - 1] \o BlankLine \o EntryOf(chunks[i])
    IN  join[Len(chunks)]

\* C12: when the composed prompt is at most max_input_chars long, the final
\* prompt is head + context block + tail, the block holding the entries
\* in the supplied order; no marker is added and no character removed.
C12_UnderBudgetPureConcatenation ==
    UnderBudget =>
        /\ pin.prompt = PinHead \o EntriesInOrder(pin.chunks) \o PinTail
        /\ ~Contains(pin.prompt, TruncationMarker)
        /\ Len(pin.prompt) = Len(PinHead) + Len(PinContextBlock) + Len(PinTail)

\* An under-budget prompt of two different chunks.
C12_Witness ==
    /\ UnderBudget
    /\ Len(pin.chunks) >= 2
    /\ pin.chunks[1] # pin.chunks[2]

\* C13: in a truncated prompt the head (personality and preamble) and the
\* tail (question) are unchanged and the kept context is a proper prefix of
\* the original context block.
C13_TruncationKeepsPrefix ==
    OverBudget =>
        \E k \in 0..(Len(PinContextBlock) - 1) :
            pin.prompt = PinHead \o SubSeq(PinContextBlock, 1, k)
                                 \o TruncationMarker \o PinTail

\* A truncated prompt of two chunks that keeps text of the first chunk and
\* drops text of the second.
C13_Witness ==
    /\ OverBudget
    /\ Len(pin.chunks) >= 2
    /\ Contains(pin.prompt, EntryOf(pin.chunks[1]))
    /\ ~Contains(pin.prompt, pin.chunks[2].text)

\* Exact comparison of two fractions with positive denominators.
FracLeq(a, b) == a.num * b.den <= b.num * a.den
\* mean(d1) <= mean(d2), the distances in hundredths.
MeanLeq(d1, d2) ==
    SumDistances(ChunksAt(d1)) * Len(d2) <= SumDistances(ChunksAt(d2)) * Len(d1)

\* C14: for a non-empty retrieved set the confidence is
\* clamp(1 - mean(distances), 0, 1): it lies in [0, 1] also for distances
\* below 0 or above 1, it does not increase when the mean distance
\* increases, and [0,0,0] gives 1.0, [1,1,1] gives 0.0, [2] gives 0.0 and
\* [0.2, 0.4] gives 0.7.
C14_ConfidenceIsClampedComplement ==
    pin.phase = "scored" =>
        LET c == pin.confidence
            n == Len(pin.distances)
            sum == SumDistances(ChunksAt(pin.distances))
        IN  /\ c.den > 0
            /\ 0 <= c.num /\ c.num <= c.den
            /\ sum >= 100 * n => c.num = 0
            /\ sum <= 0 => c.num = c.den
            /\ (0 < sum /\ sum < 100 * n) => c.num * 100 * n = (100 * n - sum) * c.den
            /\ \A other \in DistanceLists :
                  MeanLeq(pin.distances, other)
                      => FracLeq(Confidence(ChunksAt(other)), c)
            /\ pin.distances = <<0, 0, 0>> => c.num = c.den
            /\ pin.distances = <<100, 100, 100>> => c.num = 0
            /\ pin.distances = <<200>> => c.num = 0
            /\ pin.distances = <<20, 40>> => c.num * 10 = 7 * c.den

\* The distances [0.2, 0.4] have been scored 0.7.
C14_Witness ==
    /\ pin.phase = "scored"
    /\ pin.distances = <<20, 40>>
    /\ pin.confidence.num * 10 = 7 * pin.confidence.den

ReplyHits(results) ==
    IF results.ids = << >> THEN << >>
    ELSE [i \in 1..Len(results.ids[1]) |->
             [id |-> results.ids[1][i], text |-> results.documents[1][i],
              metadata |-> results.metadatas[1][i],
              distance |-> results.distances[1][i]]]

\* C16: retrieve_context returns exactly one record per hit returned by
\* the store, in the order of the store, and the sources of the response
\* are the file_path of each of these records in the same order,
\* duplicates kept.
C16_OneRecordPerHitInOrder ==
    pin.phase = "normalized" =>
        LET hits == ReplyHits(pin.results)
        IN  /\ Len(pin.context_chunks) = Len(hits)
            /\ \A i \in 1..Len(hits) :
                  /\ pin.context_chunks[i].id = hits[i].id
                  /\ pin.context_chunks[i].text = hits[i].text
                  /\ pin.context_chunks[i].distance = hits[i].distance
            /\ Len(pin.sources) = Len(hits)
            /\ \A i \in 1..Len(hits) :
                  pin.sources[i] = pin.context_chunks[i].file_path

\* The id split on its first ":".
FirstColon(id) ==
    LET cuts == {i \in 1..Len(id) : id[i] = ":"}
    IN  IF cuts = {} THEN 0 ELSE CHOOSE i \in cuts : \A j \in cuts : i <= j
IdFilePath(id) == IF FirstColon(id) = 0 THEN << >> ELSE SubSeq(id, 1, FirstColon(id) - 1)
IdChunkIndex(id) ==
    IF FirstColon(id) = 0 \/ FirstColon(id) = Len(id) THEN "" ELSE id[FirstColon(id) + 1]

\* C17: a hit without metadata is normalized from its id: file_path is the
\* part of the id before its first ":" (empty when the id has none),
\* chunk_index is the part after it, and filename the last segment of that
\* file_path; "docs/a.md:3" gives "docs/a.md", "3" and "a.md".
C17_NoMetadataFallsBackToId ==
    pin.phase = "normalized" =>
        LET hits == ReplyHits(pin.results)
        IN  \A i \in 1..Len(hits) :
                (hits[i].metadata.null \/ hits[i].metadata.d = << >>) =>
                    /\ i <= Len(pin.context_chunks)
                    /\ pin.context_chunks[i].file_path = IdFilePath(hits[i].id)
                    /\ pin.context_chunks[i].chunk_index = IdChunkIndex(hits[i].id)
                    /\ pin.context_chunks[i].filename
                          = LastSegment(IdFilePath(hits[i].id))

\* C18: every record written by load_embeddings_to_chromadb and by
\* convert_to_jsonl has the id "<file_path>:<chunk_index>" of its own
\* metadata, and its stored filename is the last segment of its file_path
\* after backslashes are turned into slashes.
C18_LoaderRecordsAreCanonical ==
    pin.phase \in {"chromadb", "jsonl"} =>
        \A i \in 1..Len(pin.records) :
            LET m == pin.records[i].metadata
            IN  /\ pin.records[i].id = m.file_path \o <<":", m.chunk_index>>
                /\ m.filename = LastSegment(m.file_path)

\* A chunk built from whole paragraphs only.
WholeParagraphs(chunk) == \A i \in 1..Len(chunk) : chunk[i].sent = 0

\* The length of the piece chunk i starts with when that piece is the last
\* piece of chunk i - 1, carried over; 0 when nothing is carried over.
CarriedLen(chunks, i) ==
    IF i > 1 /\ chunks[i][1] = chunks[i - 1][Len(chunks[i - 1])]
    THEN chunks[i][1].len ELSE 0

\* C19: a chunk built from whole paragraphs is at most
\* max_chunk_size long when overlap = 0 and at most max_chunk_size plus the
\* carried-over paragraph when overlap > 0; only chunks holding sentences
\* of an oversized paragraph may be longer.
C19_ChunkWithinSizePlusCarried ==
    pin.phase = "chunked" =>
        \A i \in 1..Len(pin.chunks) :
            WholeParagraphs(pin.chunks[i]) =>
                ChunkLen(pin.chunks[i])
                    <= pin.max_chunk_size
                         + (IF pin.overlap > 0 THEN CarriedLen(pin.chunks, i) ELSE 0)

\* The places of the text a chunk may hold: the non-empty paragraphs that
\* fit, and the non-empty sentences of those that do not.
TextPieces ==
    {Piece(k, 0, pin.paragraphs[k].size) :
        k \in {k \in 1..Len(pin.paragraphs) :
                  /\ pin.paragraphs[k].size > 0
                  /\ pin.paragraphs[k].size <= pin.max_chunk_size}}
    \cup UNION {{Piece(k, j, pin.paragraphs[k].sentences[j]) :
                    j \in {j \in 1..Len(pin.paragraphs[k].sentences) :
                              pin.paragraphs[k].sentences[j] > 0}}
                : k \in {k \in 1..Len(pin.paragraphs) :
                            pin.paragraphs[k].size > pin.max_chunk_size}}

\* The places (chunk, position) at which a piece occurs in the chunks.
Occurrences(piece) ==
    {<<i, j>> \in (1..Len(pin.chunks)) \X (1..(Len(pin.paragraphs) * 4)) :
        j <= Len(pin.chunks[i]) /\ pin.chunks[i][j] = piece}

\* C20: with overlap = 0 every non-empty paragraph, or sentence of an
\* oversized paragraph, is placed in exactly one chunk, once, and the
\* chunks hold nothing else.
C20_NoDuplicationWithoutOverlap ==
    (pin.phase = "chunked" /\ pin.overlap = 0) =>
        /\ \A piece \in TextPieces : Cardinality(Occurrences(piece)) = 1
        /\ \A i \in 1..Len(pin.chunks) : \A j \in 1..Len(pin.chunks[i]) :
              pin.chunks[i][j] \in TextPieces

\* Three paragraphs chunked with overlap = 0 into more than one chunk.
C20_Witness ==
    /\ pin.phase = "chunked"
    /\ pin.overlap = 0
    /\ Len(pin.paragraphs) >= 3
    /\ Len(pin.chunks) >= 2
    /\ \E i \in 1..Len(pin.chunks) : Len(pin.chunks[i]) >= 2

\* The non-empty paragraphs of the text, as whole pieces, in order.
NonEmptyParagraphs ==
    LET keep[k \in 0..Len(pin.paragraphs)] ==
            IF k = 0 THEN << >>
            ELSE IF pin.paragraphs[k].size = 0 THEN keep[k - 1]
            ELSE Append(keep[k - 1], Piece(k, 0, pin.paragraphs[k].size))
    IN  keep[Len(pin.paragraphs)]

\* C21: when the non-empty paragraphs of the text, joined by the blank
\* line separator, are at most max_chunk_size long in total, chunk_text
\* returns exactly one chunk, these paragraphs joined in order, whatever
\* the overlap is.
C21_SmallTextIsOneChunk ==
    (/\ pin.phase = "chunked"
     /\ NonEmptyParagraphs # << >>
     /\ ChunkLen(NonEmptyParagraphs) <= pin.max_chunk_size)
        => pin.chunks = <<NonEmptyParagraphs>>

\* Two paragraphs that fill max_chunk_size exactly, chunked with overlap.
C21_Witness ==
    /\ pin.phase = "chunked"
    /\ pin.overlap > 0
    /\ Len(NonEmptyParagraphs) = 2
    /\ ChunkLen(NonEmptyParagraphs) = pin.max_chunk_size
    /\ Len(pin.chunks) = 1

\* C22: chunk_text never returns an empty chunk: a text without a
\* non-empty paragraph gives no chunk at all, empty paragraphs are dropped,
\* and every chunk holds at least one piece, every piece non-empty.
C22_NoEmptyChunk ==
    pin.phase = "chunked" =>
        /\ NonEmptyParagraphs = << >> <=> pin.chunks = << >>
        /\ \A i \in 1..Len(pin.chunks) :
              /\ pin.chunks[i] # << >>
              /\ \A j \in 1..Len(pin.chunks[i]) :
                    /\ pin.chunks[i][j].len > 0
                    /\ pin.paragraphs[pin.chunks[i][j].para].size > 0

\* A text of empty paragraphs only has been chunked into nothing, and (in
\* another run) a text that starts with an oversized paragraph after an
\* empty one has been chunked.
C22_Witness ==
    /\ pin.phase = "chunked"
    /\ Len(pin.paragraphs) >= 2
    /\ pin.paragraphs[1].size = 0
    /\ \/ pin.chunks = << >>
       \/ pin.paragraphs[2].size > pin.max_chunk_size

PieceBefore(a, b) == a.para < b.para \/ (a.para = b.para /\ a.sent < b.sent)

\* C28: chunk_text loses no paragraph: every non-empty paragraph that fits
\* max_chunk_size is in at least one chunk, and the pieces are in document
\* order inside a chunk and from one chunk to the next, a piece being
\* repeated only as the first piece of the next chunk when overlap > 0.
C28_NoParagraphLost ==
    pin.phase = "chunked" =>
        /\ \A k \in 1..Len(pin.paragraphs) :
              (pin.paragraphs[k].size > 0 /\ pin.paragraphs[k].size <= pin.max_chunk_size)
                  => \E i \in 1..Len(pin.chunks) : \E j \in 1..Len(pin.chunks[i]) :
                         pin.chunks[i][j] = Piece(k, 0, pin.paragraphs[k].size)
        /\ \A i \in 1..Len(pin.chunks) : \A j \in 1..(Len(pin.chunks[i]) - 1) :
              PieceBefore(pin.chunks[i][j], pin.chunks[i][j + 1])
        /\ \A i \in 2..Len(pin.chunks) :
              LET last == pin.chunks[i - 1][Len(pin.chunks[i - 1])]
              IN  \/ PieceBefore(last, pin.chunks[i][1])
                  \/ pin.overlap > 0 /\ pin.chunks[i][1] = last

\* Three fitting paragraphs chunked with overlap into three chunks, the
\* second of them repeated at the start of the third chunk.
C28_Witness ==
    /\ pin.phase = "chunked"
    /\ pin.overlap > 0
    /\ Len(pin.chunks) = 3
    /\ \A k \in 1..Len(pin.paragraphs) :
          pin.paragraphs[k].size \in 1..pin.max_chunk_size
    /\ pin.chunks[3][1] = pin.chunks[2][Len(pin.chunks[2])]

\* The chunk_index values, in store order, of the records of one file.
StoredIndexes(path) ==
    LET keep[i \in 0..Len(pin.records)] ==
            IF i = 0 THEN << >>
            ELSE IF pin.records[i].metadata.file_path = path
            THEN Append(keep[i - 1], pin.records[i].metadata.chunk_index)
            ELSE keep[i - 1]
    IN  keep[Len(pin.records)]

\* C24: after process_repository, create_embeddings and
\* load_embeddings_to_chromadb the records of every document that reach
\* the store have the chunk_index values 0, 1, ..., n - 1, in this order
\* and without a gap, n being the total_chunks of the document, whatever
\* the outcome of the embedding batches.
C24_StoredChunkIndexesContiguous ==
    (pin.phase = "chromadb" /\ "counts" \in DOMAIN pin) =>
        \A d \in 1..Len(DocPaths) :
            StoredIndexes(DocPaths[d]) = [i \in 1..pin.counts[d] |-> Str(i - 1)]

C26_RetrieveContextAllOrNothing ==
    pin.phase = "normalized" =>
        LET hits == ReplyHits(pin.results)
        IN  /\ \/ pin.context_chunks = << >>
               \/ /\ Len(pin.context_chunks) = Len(hits)
                  /\ \A i \in 1..Len(hits) : pin.context_chunks[i].id = hits[i].id
            /\ (\E i \in 1..Len(hits) : hits[i].metadata.null)
                  => (pin.context_chunks = << >> /\ pin.sources = << >>)
            /\ (\A i \in 1..Len(hits) : ~hits[i].metadata.null)
                  => Len(pin.context_chunks) = Len(hits)

\* A reply of two hits normalized to nothing: the first hit is well
\* formed, the metadata entry of the second is null.
C26_Witness ==
    /\ pin.phase = "normalized"
    /\ LET hits == ReplyHits(pin.results)
       IN  /\ Len(hits) = 2
           /\ ~hits[1].metadata.null
           /\ hits[2].metadata.null
    /\ pin.context_chunks = << >>

\* C27: when retrieval returned a non-empty set and generate_response
\* caught a failure, the response of ask_mascot carries the file_path of
\* every retrieved chunk, in order, and the confidence computed from their
\* distances; only its text is the apology.
C27_FailedGenerationKeepsSourcesAndConfidence ==
    [][ \A t \in Threads :
          (/\ ~Done(t)
           /\ th'[t].pc = "done"
           /\ "generate_caught" \in th'[t].ev) =>
              LET chunks == th[t].context_chunks
                  r == th'[t].response
                  den == 100 * Len(chunks)
              IN  /\ chunks # << >>
                  /\ r.status = 200
                  /\ r.sources = [i \in 1..Len(chunks) |-> chunks[i].file_path]
                  /\ r.confidence.den = den
                  /\ r.confidence.num
                        = Max(0, Min(den, den - SumDistances(chunks)))
                  /\ Head(r.response) = ApologyPrefix
                  /\ r.response = <<ApologyPrefix>> \o th'[t].raised.msg ]_vars

\* A request answered with the apology, two sources and a confidence
\* above 0.
C27_Witness ==
    \E t \in Threads :
        /\ Done(t)
        /\ "generate_caught" \in th[t].ev
        /\ Len(th[t].response.sources) = 2
        /\ th[t].response.confidence.num > 0
        /\ Head(th[t].response.response) = ApologyPrefix

====
